---- MODULE Spec2Model ----
(***************************************************************************)
(* Model of api_server.py: the FastAPI handlers trigger_call,              *)
(* voice_webhook and voice_process, with the module-level configuration    *)
(* and the shared objects they touch.                                      *)
(*                                                                         *)
(* Strings that the code takes apart (phone numbers) are sequences of      *)
(* one-character strings; messages and markup documents are sequences of   *)
(* string pieces.  An optional value (a dict key or form field that may be *)
(* absent) is a sequence of length 0 (absent) or 1 (present).              *)
(***************************************************************************)
EXTENDS Integers, Sequences, FiniteSets, TLC

\* ---------------------------------------------------------------- bounds
MaxLen == 2        \* longest phone string a request carries
NumReq == 2        \* request slots (requests in flight at once)

Slots == 1..NumReq

\* characters a phone string is made of: "+", a zero, a non-zero digit and
\* the four characters line 234 removes
Chars == {"+", "0", "7", " ", "-", "(", ")"}

PhoneStrings == UNION {[1..n -> Chars] : n \in 0..MaxLen}

\* request bodies of POST /trigger-call: {} or {"phone": s}
Bodies == {<<>>} \cup {<<s>> : s \in PhoneStrings}

\* the bodies used when several requests are in flight
ConcBodies == {<<>>, <<<<"0", "7">>>>}

\* recognized-speech strings (a sequence of words; <<>> is the empty string)
Utterances == {<<"hours">>, <<"book">>, <<"hello">>}

\* the SpeechResult field of a voice request: absent, empty or an utterance
Forms == {<<>>, <<<<>>>>} \cup {<<u>> : u \in Utterances}

\* the forms used when several requests are in flight
ConcForms == {<<>>, <<<<"hours">>>>}

VARIABLES
    VONAGE_AVAILABLE,     \* line 26/29: the vonage package imported
    VONAGE_API_KEY,       \* line 31: truthiness of the setting
    VONAGE_API_SECRET,    \* line 32
    VONAGE_PHONE_NUMBER,  \* line 33
    VONAGE_ANSWER_URL,    \* line 35
    active_sessions,      \* line 72: keys of the module-level dict
    endpoint,             \* per slot: which handler runs in it
    pc,                   \* per slot: the handler's position
    input,                \* per slot: the request's optional phone / SpeechResult
    phone,                \* per slot: trigger_call's local variable `phone`
    calls,                \* per slot: the external calls made so far, with outcomes
    resp                  \* per slot: the response the request ends in

config == <<VONAGE_AVAILABLE, VONAGE_API_KEY, VONAGE_API_SECRET,
            VONAGE_PHONE_NUMBER, VONAGE_ANSWER_URL>>
vars == <<VONAGE_AVAILABLE, VONAGE_API_KEY, VONAGE_API_SECRET,
          VONAGE_PHONE_NUMBER, VONAGE_ANSWER_URL, active_sessions,
          endpoint, pc, input, phone, calls, resp>>

\* ------------------------------------------------------- Python helpers
\* dict.get(key) / dict.get(key, default) on an optional value
Get(opt, default) == IF opt = <<>> THEN default ELSE opt[1]

\* s.replace(c, "") for a one-character c
Replace(s, c) == SelectSeq(s, LAMBDA x : x # c)

\* s.startswith(c) for a one-character c
StartsWith(s, c) == Len(s) > 0 /\ s[1] = c

\* lstrip that removes one leading character only
LStripKeepsRest(s, c) ==
    IF Len(s) > 0 /\ s[1] = c THEN Tail(s) ELSE s

\* s.lstrip(c) for a one-character c
RECURSIVE LStrip(_, _)
LStrip(s, c) ==
    IF Len(s) > 0 /\ s[1] = c THEN LStrip(Tail(s), c) ELSE s

\* line 234 with one replace forgotten
CleanKeepsParen(p) ==
    Replace(Replace(Replace(p, " "), "-"), "(")

\* line 234: phone.replace(" ", "").replace("-", "").replace("(", "").replace(")", "")
Clean(p) ==
    Replace(Replace(Replace(Replace(p, " "), "-"), "("), ")")

CountryPrefix == <<"+", "9", "1">>

\* lines 234-236: the cleaned number, prefixed when it has no leading "+"
Normalize(p) ==
    LET cleaned == Clean(p)
    IN  IF ~StartsWith(cleaned, "+")
        THEN CountryPrefix \o LStrip(cleaned, "0")
        ELSE cleaned

\* ------------------------------------------------------------ responses
NoResp ==
    [kind |-> "none", status |-> 0, media |-> "", fields |-> {},
     success |-> FALSE, provider |-> "", call_id |-> "",
     message |-> <<>>, content |-> <<>>]

\* a dict returned by a handler: FastAPI sends it as JSON with status 200
JsonResponse(fields, success, provider, call_id, message) ==
    [kind |-> "json", status |-> 200, media |-> "application/json",
     fields |-> fields, success |-> success, provider |-> provider,
     call_id |-> call_id, message |-> message, content |-> <<>>]

\* an HTTPException raised out of a handler: FastAPI sends {"detail": ...}
HTTPException(status_code, detail) ==
    [kind |-> "http_error", status |-> status_code, media |-> "application/json",
     fields |-> {"detail"}, success |-> FALSE, provider |-> "", call_id |-> "",
     message |-> detail, content |-> <<>>]

\* Response(content=..., media_type=...)
Response(content, media_type) ==
    [kind |-> "response", status |-> 200, media |-> media_type,
     fields |-> {}, success |-> FALSE, provider |-> "", call_id |-> "",
     message |-> <<>>, content |-> content]

\* str(e) of the HTTPException raised at line 231, as line 263 takes it
StrHTTPException(status_code, detail) ==
    <<ToString(status_code), ": ">> \o detail

\* str(e) of an exception raised by a provider call
StrException(fn) == <<fn, " failed">>

Call(fn, arg, out) == [fn |-> fn, arg |-> arg, out |-> out]

\* ------------------------------------------- voice_agent (not in src/)
Intents == {"hours", "pricing", "book", "services"}

\* the keyword table: a canned reply per detected intent, else a fallback
Reply(speech) ==
    IF Len(speech) > 0 /\ speech[1] \in Intents
    THEN <<"reply for ", speech[1]>>
    ELSE <<"reply for anything else">>

\* salon_ai.twilio_handler.generate_twiml_response(message): the message
\* wrapped into a call-control document
generate_twiml_response(message) ==
    <<"<Response>", "<Say>">> \o message \o <<"</Say>", "</Response>">>

\* salon_ai.process_voice_call(speech_result), when it returns
process_voice_call(speech_result) ==
    generate_twiml_response(Reply(speech_result))

\* salon_ai.trigger_voice_call / vonage create_call / vonage.Client outcomes
VonageOutcomes == {"dict_uuid", "dict_no_uuid", "not_dict", "raises"}
TwilioOutcomes == {"true", "false", "raises"}
Outcomes == {"returns", "raises"}

\* ------------------------------------------------------------- messages
WebhookGreeting ==
    <<"Hello! Welcome to Goodness Glamour Salon. I'm your AI assistant. How can I help you today?">>
WebhookApology ==
    <<"I'm sorry, I'm having trouble. Please try again later.">>
ProcessGreeting ==
    <<"Hello! Welcome to Goodness Glamour Salon. How can I help you today?">>
ProcessApology ==
    <<"I'm sorry, I'm having trouble. Please try again.">>
FailedMessage ==
    <<"Failed to initiate call. Configure Vonage (VONAGE_API_KEY/SECRET/PHONE/ANSWER_URL) or Twilio (SID/TOKEN/PHONE/WEBHOOK_URL).">>
InitiatedMessage(p) == <<"AI call initiated to ">> \o p

\* ---------------------------------------------------------------- Init
Init ==
    /\ VONAGE_AVAILABLE \in BOOLEAN
    /\ VONAGE_API_KEY \in BOOLEAN
    /\ VONAGE_API_SECRET \in BOOLEAN
    /\ VONAGE_PHONE_NUMBER \in BOOLEAN
    /\ VONAGE_ANSWER_URL \in BOOLEAN
    /\ active_sessions = {}
    /\ endpoint = [r \in Slots |-> ""]
    /\ pc = [r \in Slots |-> "idle"]
    /\ input = [r \in Slots |-> <<>>]
    /\ phone = [r \in Slots |-> <<>>]
    /\ calls = [r \in Slots |-> <<>>]
    /\ resp = [r \in Slots |-> NoResp]

\* ------------------------------------------------------- trigger_call
\* lines 37-46: TRUE when a client object is returned, FALSE for None;
\* ctor is the outcome of vonage.Client(...), consulted only at line 43
get_vonage_client(ctor) ==
    IF ~VONAGE_AVAILABLE THEN FALSE
    ELSE IF ~(VONAGE_API_KEY /\ VONAGE_API_SECRET) THEN FALSE
    ELSE ctor = "returns"

\* the calls get_vonage_client makes: vonage.Client at line 43
ClientCalls(ctor) ==
    IF VONAGE_AVAILABLE /\ VONAGE_API_KEY /\ VONAGE_API_SECRET
    THEN <<Call("vonage.Client", <<>>, ctor)>>
    ELSE <<>>

\* lines 228-240 and 261-263: the request arrives with its JSON body; the
\* phone is read, checked and normalized, and the Vonage client is built
trigger_call(r, request) ==
    /\ pc[r] = "idle"
    /\ endpoint' = [endpoint EXCEPT ![r] = "trigger_call"]
    /\ input' = [input EXCEPT ![r] = request]
    /\ IF Get(request, <<>>) = <<>>
       THEN \* line 231 raises; the except clause at 261 catches it
            /\ resp' = [resp EXCEPT ![r] =
                   HTTPException(500,
                       StrHTTPException(400, <<"Phone number is required">>))]
            /\ pc' = [pc EXCEPT ![r] = "done"]
            /\ UNCHANGED <<phone, calls>>
       ELSE \E ctor \in Outcomes :
            /\ phone' = [phone EXCEPT ![r] = Normalize(Get(request, <<>>))]
            /\ calls' = [calls EXCEPT ![r] = ClientCalls(ctor)]
            /\ pc' = [pc EXCEPT ![r] =
                   IF get_vonage_client(ctor) /\ VONAGE_PHONE_NUMBER
                                              /\ VONAGE_ANSWER_URL
                   THEN "create_call" ELSE "trigger_voice_call"]
            /\ UNCHANGED resp
    /\ UNCHANGED <<config, active_sessions>>

\* line 247: response.get('uuid') if isinstance(response, dict) else None
CallId(out) == IF out = "dict_uuid" THEN "uuid" ELSE "None"

\* the Vonage attempt without the fallback: a raise ends the request
create_call_no_fallback(r) ==
    /\ pc[r] = "create_call"
    /\ \E out \in VonageOutcomes :
         /\ calls' = [calls EXCEPT ![r] = Append(@, Call("create_call", phone[r], out))]
         /\ pc' = [pc EXCEPT ![r] = "done"]
         /\ resp' = [resp EXCEPT ![r] =
                IF out = "raises"
                THEN HTTPException(500, StrException("create_call"))
                ELSE JsonResponse({"success", "provider", "message", "call_id"},
                                  TRUE, "vonage", CallId(out),
                                  InitiatedMessage(phone[r]))]
    /\ UNCHANGED <<config, active_sessions, endpoint, input, phone>>

\* the Vonage attempt with the return at line 248 missing: Twilio follows
create_call_falls_through(r) ==
    /\ pc[r] = "create_call"
    /\ \E out \in VonageOutcomes :
         /\ calls' = [calls EXCEPT ![r] = Append(@, Call("create_call", phone[r], out))]
         /\ pc' = [pc EXCEPT ![r] = "trigger_voice_call"]
         /\ UNCHANGED resp
    /\ UNCHANGED <<config, active_sessions, endpoint, input, phone>>

\* lines 241-251: the Vonage attempt
create_call(r) ==
    /\ pc[r] = "create_call"
    /\ \E out \in VonageOutcomes :
         /\ calls' = [calls EXCEPT ![r] = Append(@, Call("create_call", phone[r], out))]
         /\ IF out = "raises"
            THEN /\ pc' = [pc EXCEPT ![r] = "trigger_voice_call"]
                 /\ UNCHANGED resp
            ELSE /\ pc' = [pc EXCEPT ![r] = "done"]
                 /\ resp' = [resp EXCEPT ![r] =
                        JsonResponse({"success", "provider", "message", "call_id"},
                                     TRUE, "vonage", CallId(out),
                                     InitiatedMessage(phone[r]))]
    /\ UNCHANGED <<config, active_sessions, endpoint, input, phone>>

\* an exception that leaves a handler: the framework's own error page
Unhandled(exc) ==
    [kind |-> "unhandled", status |-> 500, media |-> "text/plain",
     fields |-> {}, success |-> FALSE, provider |-> "", call_id |-> "",
     message |-> exc, content |-> <<>>]

\* the Twilio attempt with its return value ignored
trigger_voice_call_unchecked(r) ==
    /\ pc[r] = "trigger_voice_call"
    /\ \E out \in TwilioOutcomes :
         /\ calls' = [calls EXCEPT ![r] =
                Append(@, Call("trigger_voice_call", phone[r], out))]
         /\ resp' = [resp EXCEPT ![r] =
                IF out = "raises"
                THEN HTTPException(500, StrException("trigger_voice_call"))
                ELSE JsonResponse({"success", "provider", "message"},
                                  TRUE, "twilio", "", InitiatedMessage(phone[r]))]
    /\ pc' = [pc EXCEPT ![r] = "done"]
    /\ UNCHANGED <<config, active_sessions, endpoint, input, phone>>

\* the Twilio attempt outside any try block
trigger_voice_call_uncaught(r) ==
    /\ pc[r] = "trigger_voice_call"
    /\ \E out \in TwilioOutcomes :
         /\ calls' = [calls EXCEPT ![r] =
                Append(@, Call("trigger_voice_call", phone[r], out))]
         /\ resp' = [resp EXCEPT ![r] =
                CASE out = "true" ->
                       JsonResponse({"success", "provider", "message"},
                                    TRUE, "twilio", "", InitiatedMessage(phone[r]))
                  [] out = "false" ->
                       JsonResponse({"success", "message"},
                                    FALSE, "", "", FailedMessage)
                  [] out = "raises" ->
                       Unhandled(StrException("trigger_voice_call"))]
    /\ pc' = [pc EXCEPT ![r] = "done"]
    /\ UNCHANGED <<config, active_sessions, endpoint, input, phone>>

\* lines 253-263: the Twilio attempt
trigger_voice_call(r) ==
    /\ pc[r] = "trigger_voice_call"
    /\ \E out \in TwilioOutcomes :
         /\ calls' = [calls EXCEPT ![r] =
                Append(@, Call("trigger_voice_call", phone[r], out))]
         /\ resp' = [resp EXCEPT ![r] =
                CASE out = "true" ->
                       JsonResponse({"success", "provider", "message"},
                                    TRUE, "twilio", "", InitiatedMessage(phone[r]))
                  [] out = "false" ->
                       JsonResponse({"success", "message"},
                                    FALSE, "", "", FailedMessage)
                  [] out = "raises" ->
                       HTTPException(500, StrException("trigger_voice_call"))]
    /\ pc' = [pc EXCEPT ![r] = "done"]
    /\ UNCHANGED <<config, active_sessions, endpoint, input, phone>>

\* ------------------------------------------------------ voice handlers
\* voice_webhook without the branch on the speech result
WebhookRunAlwaysProcesses(speech_result, out) ==
    IF out = "returns"
    THEN [calls |-> <<Call("process_voice_call", speech_result, "returns")>>,
          resp  |-> Response(process_voice_call(speech_result), "application/xml")]
    ELSE [calls |-> <<Call("process_voice_call", speech_result, "raises"),
                      Call("generate_twiml_response", WebhookApology, "returns")>>,
          resp  |-> Response(generate_twiml_response(WebhookApology),
                             "application/xml")]

\* voice_webhook with trigger_call's except clause: the failure is re-raised
WebhookRunReraises(speech_result, out) ==
    IF speech_result = <<>>
    THEN [calls |-> <<Call("generate_twiml_response", WebhookGreeting, "returns")>>,
          resp  |-> Response(generate_twiml_response(WebhookGreeting),
                             "application/xml")]
    ELSE IF out = "returns"
    THEN [calls |-> <<Call("process_voice_call", speech_result, "returns")>>,
          resp  |-> Response(process_voice_call(speech_result), "application/xml")]
    ELSE [calls |-> <<Call("process_voice_call", speech_result, "raises")>>,
          resp  |-> HTTPException(500, StrException("process_voice_call"))]

\* lines 275-290: what voice_webhook does with the speech result, given the
\* outcome of process_voice_call should it be called
WebhookRun(speech_result, out) ==
    IF speech_result = <<>>
    THEN [calls |-> <<Call("generate_twiml_response", WebhookGreeting, "returns")>>,
          resp  |-> Response(generate_twiml_response(WebhookGreeting),
                             "application/xml")]
    ELSE IF out = "returns"
    THEN [calls |-> <<Call("process_voice_call", speech_result, "returns")>>,
          resp  |-> Response(process_voice_call(speech_result), "application/xml")]
    ELSE [calls |-> <<Call("process_voice_call", speech_result, "raises"),
                      Call("generate_twiml_response", WebhookApology, "returns")>>,
          resp  |-> Response(generate_twiml_response(WebhookApology),
                             "application/xml")]

\* lines 296-311: the same for voice_process
ProcessRun(speech_result, out) ==
    IF speech_result = <<>>
    THEN [calls |-> <<Call("generate_twiml_response", ProcessGreeting, "returns")>>,
          resp  |-> Response(generate_twiml_response(ProcessGreeting),
                             "application/xml")]
    ELSE IF out = "returns"
    THEN [calls |-> <<Call("process_voice_call", speech_result, "returns")>>,
          resp  |-> Response(process_voice_call(speech_result), "application/xml")]
    ELSE [calls |-> <<Call("process_voice_call", speech_result, "raises"),
                      Call("generate_twiml_response", ProcessApology, "returns")>>,
          resp  |-> Response(generate_twiml_response(ProcessApology),
                             "application/xml")]

\* lines 266-271: the request arrives and its form is awaited
voice_webhook_form(r, form) ==
    /\ pc[r] = "idle"
    /\ endpoint' = [endpoint EXCEPT ![r] = "voice_webhook"]
    /\ input' = [input EXCEPT ![r] = form]
    /\ pc' = [pc EXCEPT ![r] = "form_read"]
    /\ UNCHANGED <<config, active_sessions, phone, calls, resp>>

\* voice_webhook keeping a session per speech result in active_sessions and
\* answering a repeated one differently
voice_webhook_with_sessions(r) ==
    /\ pc[r] = "form_read"
    /\ \E out \in Outcomes :
         LET run == WebhookRun(Get(input[r], <<>>), out)
         IN  /\ calls' = [calls EXCEPT ![r] = run.calls]
             /\ resp' = [resp EXCEPT ![r] =
                    IF input[r] \in active_sessions
                    THEN Response(generate_twiml_response(WebhookApology),
                                  "application/xml")
                    ELSE run.resp]
    /\ active_sessions' = active_sessions \cup {input[r]}
    /\ pc' = [pc EXCEPT ![r] = "done"]
    /\ UNCHANGED <<config, endpoint, input, phone>>

\* lines 271-290: the rest of voice_webhook, after the await
voice_webhook(r) ==
    /\ pc[r] = "form_read"
    /\ \E out \in Outcomes :
         LET run == WebhookRun(Get(input[r], <<>>), out)
         IN  /\ calls' = [calls EXCEPT ![r] = run.calls]
             /\ resp' = [resp EXCEPT ![r] = run.resp]
    /\ pc' = [pc EXCEPT ![r] = "done"]
    /\ UNCHANGED <<config, active_sessions, endpoint, input, phone>>

\* lines 293-311: voice_process, which has no await
voice_process(r, query) ==
    /\ pc[r] = "idle"
    /\ endpoint' = [endpoint EXCEPT ![r] = "voice_process"]
    /\ input' = [input EXCEPT ![r] = query]
    /\ \E out \in Outcomes :
         LET run == ProcessRun(Get(query, <<>>), out)
         IN  /\ calls' = [calls EXCEPT ![r] = run.calls]
             /\ resp' = [resp EXCEPT ![r] = run.resp]
    /\ pc' = [pc EXCEPT ![r] = "done"]
    /\ UNCHANGED <<config, active_sessions, phone>>

\* the framework sends the response; the slot takes the next request
Respond(r) ==
    /\ pc[r] = "done"
    /\ endpoint' = [endpoint EXCEPT ![r] = ""]
    /\ pc' = [pc EXCEPT ![r] = "idle"]
    /\ input' = [input EXCEPT ![r] = <<>>]
    /\ phone' = [phone EXCEPT ![r] = <<>>]
    /\ calls' = [calls EXCEPT ![r] = <<>>]
    /\ resp' = [resp EXCEPT ![r] = NoResp]
    /\ UNCHANGED <<config, active_sessions>>

\* -------------------------------------------------------- specifications
Quiescent == \A r \in Slots : pc[r] = "idle"

\* one request at a time, over every phone string
Next ==
    \E r \in Slots :
        \/ Quiescent /\ \E request \in Bodies : trigger_call(r, request)
        \/ Quiescent /\ \E form \in Forms : voice_webhook_form(r, form)
        \/ Quiescent /\ \E query \in Forms : voice_process(r, query)
        \/ create_call(r)
        \/ trigger_voice_call(r)
        \/ voice_webhook(r)
        \/ Respond(r)

Spec == Init /\ [][Next]_vars

\* requests in flight together, their steps interleaved
NextConc ==
    \E r \in Slots :
        \/ \E request \in ConcBodies : trigger_call(r, request)
        \/ \E form \in ConcForms : voice_webhook_form(r, form)
        \/ \E query \in ConcForms : voice_process(r, query)
        \/ create_call(r)
        \/ trigger_voice_call(r)
        \/ voice_webhook(r)
        \/ Respond(r)

SpecConc == Init /\ [][NextConc]_vars

\* ================================================================ claims
Separators == {" ", "-", "(", ")"}
ProviderFns == {"create_call", "trigger_voice_call"}

Triggered(r) == endpoint[r] = "trigger_call"
Voice(r) == endpoint[r] \in {"voice_webhook", "voice_process"}
Finished(r) == pc[r] = "done"

\* the request's phone / SpeechResult, "" when the key is absent
Given(r) == IF input[r] = <<>> THEN <<>> ELSE input[r][1]

ProviderCallIdx(r) == {i \in DOMAIN calls[r] : calls[r][i].fn \in ProviderFns}
CallIdx(r, fn) == {i \in DOMAIN calls[r] : calls[r][i].fn = fn}
Raised(r, fn) == \E i \in CallIdx(r, fn) : calls[r][i].out = "raises"

WithoutSeparators(s) == SelectSeq(s, LAMBDA x : x \notin Separators)

\* how many "0" characters s begins with
LeadingZeros(s) ==
    CHOOSE k \in 0..Len(s) :
        /\ \A i \in 1..k : s[i] = "0"
        /\ k < Len(s) => s[k + 1] # "0"

WithoutLeadingZeros(s) == SubSeq(s, LeadingZeros(s) + 1, Len(s))

HasPlus(s) == s # <<>> /\ Head(s) = "+"

\* the number the claim says a provider is handed for the input s
ExpectedNumber(s) ==
    IF HasPlus(WithoutSeparators(s))
    THEN WithoutSeparators(s)
    ELSE <<"+", "9", "1">> \o WithoutLeadingZeros(WithoutSeparators(s))

\* C1: for a non-empty phone input, every number handed to a provider is the
\* cleaned input as it stands when that starts with "+", and otherwise "+91"
\* followed by the cleaned input without its leading zeros; and a finished
\* request with such an input has handed its number to a provider.
C1_DefaultPrefix ==
    \A r \in Slots :
        (Triggered(r) /\ Given(r) # <<>>) =>
            /\ \A i \in ProviderCallIdx(r) :
                   calls[r][i].arg = ExpectedNumber(Given(r))
            /\ Finished(r) => ProviderCallIdx(r) # {}

\* C1 witness: a provider was handed the number of an input whose cleaned
\* form has no "+" and begins with a zero
C1_Witness ==
    \E r \in Slots :
        /\ Triggered(r) /\ ProviderCallIdx(r) # {}
        /\ ~HasPlus(WithoutSeparators(Given(r)))
        /\ LeadingZeros(WithoutSeparators(Given(r))) > 0

\* C2: a finished voice request whose SpeechResult is absent or empty has
\* the greeting markup of generate_twiml_response as its response, and
\* process_voice_call is not among the calls it made.
GreetingOf(r) ==
    IF endpoint[r] = "voice_webhook" THEN WebhookGreeting ELSE ProcessGreeting

C2_GreetingWithoutSpeech ==
    \A r \in Slots :
        (Voice(r) /\ Given(r) = <<>>) =>
            /\ CallIdx(r, "process_voice_call") = {}
            /\ Finished(r) =>
                 /\ resp[r].kind = "response"
                 /\ resp[r].content = generate_twiml_response(GreetingOf(r))
                 /\ \E i \in CallIdx(r, "generate_twiml_response") :
                        calls[r][i].arg = GreetingOf(r)

\* C2 witness: a webhook request with an empty SpeechResult has finished
C2_Witness ==
    \E r \in Slots :
        /\ endpoint[r] = "voice_webhook" /\ Finished(r)
        /\ input[r] = <<<<>>>>

\* C3: a finished POST /voice/webhook request with a non-empty SpeechResult
\* has a non-empty document of media type application/xml as its response,
\* whether process_voice_call returned or raised.
C3_SpeechGetsDocument ==
    \A r \in Slots :
        (endpoint[r] = "voice_webhook" /\ Finished(r) /\ Given(r) # <<>>) =>
            /\ resp[r].kind = "response"
            /\ resp[r].media = "application/xml"
            /\ resp[r].content # <<>>

\* C3 witness: a webhook request with speech has finished after
\* process_voice_call raised
C3_Witness ==
    \E r \in Slots :
        /\ endpoint[r] = "voice_webhook" /\ Finished(r) /\ Given(r) # <<>>
        /\ Raised(r, "process_voice_call")

\* what a request ends in when its Twilio attempt had the outcome out
TwilioDetermines(r, out) ==
    CASE out = "true" ->
           /\ resp[r].kind = "json" /\ resp[r].success
           /\ resp[r].provider = "twilio"
      [] out = "false" ->
           resp[r].kind = "json" /\ ~resp[r].success
      [] out = "raises" ->
           resp[r].kind = "http_error" /\ resp[r].status = 500

\* C4: when create_call has raised, trigger_voice_call is the handler's next
\* call, with the same number, and the request ends in what that attempt
\* determines.
C4_FallbackAfterRaise ==
    \A r \in Slots :
        \A i \in CallIdx(r, "create_call") :
            calls[r][i].out = "raises" =>
                \/ i = Len(calls[r]) /\ pc[r] = "trigger_voice_call"
                \/ /\ i + 1 = Len(calls[r])
                   /\ calls[r][i + 1].fn = "trigger_voice_call"
                   /\ calls[r][i + 1].arg = calls[r][i].arg
                   /\ calls[r][i].arg = phone[r]
                   /\ Finished(r)
                   /\ TwilioDetermines(r, calls[r][i + 1].out)

\* C4 witness: a request has finished through Twilio after create_call raised
C4_Witness ==
    \E r \in Slots :
        /\ Finished(r) /\ Raised(r, "create_call")
        /\ \E i \in CallIdx(r, "trigger_voice_call") : calls[r][i].out = "true"

\* a failure was raised while the request was handled
FailureRaised(r) ==
    \/ \E i \in DOMAIN calls[r] : calls[r][i].out = "raises"
    \/ Triggered(r) /\ Given(r) = <<>>

ApologyOf(r) ==
    IF endpoint[r] = "voice_webhook" THEN WebhookApology ELSE ProcessApology

IsApology(r) ==
    /\ resp[r].kind = "response"
    /\ resp[r].content = generate_twiml_response(ApologyOf(r))

IsHttpError(r) == resp[r].kind = "http_error" /\ resp[r].status >= 400

C6_Rejected400 ==
    \A r \in Slots :
        (Triggered(r) /\ Finished(r) /\ Given(r) = <<>>) =>
            /\ resp[r].kind = "http_error"
            /\ resp[r].status = 400
            /\ resp[r].message = <<"Phone number is required">>
            /\ ProviderCallIdx(r) = {}

WellFormed(s) ==
    /\ HasPlus(s)
    /\ \A i \in DOMAIN s : s[i] \notin Separators

\* C7: wherever a provider call is about to be made or has been made, the
\* handler's phone is already normalized (it starts with "+" and holds no
\* space, hyphen or parenthesis), and every provider call was passed exactly
\* that number.
C7_NormalizedBeforeProvider ==
    \A r \in Slots :
        Triggered(r) =>
            /\ (pc[r] \in ProviderFns \/ ProviderCallIdx(r) # {}) =>
                   WellFormed(phone[r])
            /\ \A i \in ProviderCallIdx(r) :
                   calls[r][i].arg = phone[r] /\ WellFormed(calls[r][i].arg)

\* C7 witness: a provider was called for an input that held a separator
C7_Witness ==
    \E r \in Slots :
        /\ Triggered(r) /\ ProviderCallIdx(r) # {}
        /\ WithoutSeparators(Given(r)) # Given(r)

\* the outcomes a request met, call by call
Outs(r) == [i \in DOMAIN calls[r] |-> <<calls[r][i].fn, calls[r][i].out>>]

FullyConfigured(r) ==
    /\ VONAGE_AVAILABLE /\ VONAGE_API_KEY /\ VONAGE_API_SECRET
    /\ \E i \in CallIdx(r, "vonage.Client") : calls[r][i].out = "returns"
    /\ VONAGE_PHONE_NUMBER /\ VONAGE_ANSWER_URL

Accepted(r) ==
    {i \in ProviderCallIdx(r) :
        \/ calls[r][i].fn = "create_call" /\ calls[r][i].out # "raises"
        \/ calls[r][i].fn = "trigger_voice_call" /\ calls[r][i].out = "true"}

\* C9: Twilio is called only when Vonage is not fully configured or
\* create_call raised just before; create_call is called only when Vonage is
\* fully configured; once create_call has returned the request is finished
\* with provider 'vonage' and Twilio is not called; each provider is called
\* at most once and at most one call is accepted.
C9_ProviderOrder ==
    \A r \in Slots :
        /\ \A i \in CallIdx(r, "trigger_voice_call") :
               \/ ~FullyConfigured(r) /\ CallIdx(r, "create_call") = {}
               \/ /\ i > 1
                  /\ calls[r][i - 1].fn = "create_call"
                  /\ calls[r][i - 1].out = "raises"
        /\ CallIdx(r, "create_call") # {} => FullyConfigured(r)
        /\ \A i \in CallIdx(r, "create_call") :
               calls[r][i].out # "raises" =>
                   /\ Finished(r)
                   /\ resp[r].kind = "json" /\ resp[r].provider = "vonage"
                   /\ CallIdx(r, "trigger_voice_call") = {}
        /\ Cardinality(CallIdx(r, "create_call")) <= 1
        /\ Cardinality(CallIdx(r, "trigger_voice_call")) <= 1
        /\ Cardinality(Accepted(r)) <= 1

\* C9 witness: a request has finished with provider 'vonage'
C9_Witness ==
    \E r \in Slots :
        /\ Finished(r) /\ resp[r].provider = "vonage"
        /\ CallIdx(r, "trigger_voice_call") = {}

ProviderOf(fn) == IF fn = "create_call" THEN "vonage" ELSE "twilio"

\* C10: a finished trigger request reports success=true exactly when a
\* provider accepted its call, and then names that provider; when the Twilio
\* attempt returned false the response is a status-200 payload with
\* success=false and neither a 'provider' nor a 'call_id' field.
C10_SuccessIffAccepted ==
    \A r \in Slots :
        (Triggered(r) /\ Finished(r)) =>
            /\ (resp[r].kind = "json" /\ resp[r].success) <=> Accepted(r) # {}
            /\ \A i \in Accepted(r) :
                   /\ "provider" \in resp[r].fields
                   /\ resp[r].provider = ProviderOf(calls[r][i].fn)
            /\ (\E i \in CallIdx(r, "trigger_voice_call") :
                    calls[r][i].out = "false") =>
                   /\ resp[r].kind = "json" /\ resp[r].status = 200
                   /\ "success" \in resp[r].fields /\ ~resp[r].success
                   /\ resp[r].fields \cap {"provider", "call_id"} = {}

\* C10 witness: create_call raised, Twilio returned false, the request finished
C10_Witness ==
    \E r \in Slots :
        /\ Triggered(r) /\ Finished(r) /\ Raised(r, "create_call")
        /\ \E i \in CallIdx(r, "trigger_voice_call") : calls[r][i].out = "false"

====
